---- MODULE Spec2Model ----
(***************************************************************************)
(* A model of HypER/hyper.py: the Experiment class (index building, the    *)
(* ER-vocabulary, get_batch, the filtered-rank evaluate loop) and the      *)
(* epoch loop of train_and_eval.                                           *)
(*                                                                         *)
(* Floating-point values are modelled as exact rationals <<num, den>>.     *)
(* The external scoring model is opaque: its scores are a function         *)
(* scoreFn drawn from a small set, its loss is the symbolic term           *)
(* <<epoch, offset>> of the batch it was computed on.                      *)
(***************************************************************************)
EXTENDS Integers, Sequences, FiniteSets, TLC

----------------------------------------------------------------------------
(* Bounds of the model *)

MaxTrain == 3

MaxBatch == 2

MaxIter == 2

MaxEval == 2

MaxRest == 1

(* range(10) of evaluate: the Hits@1..Hits@10 levels *)
HitsLevels == 10

----------------------------------------------------------------------------
(* The data provider d = Data(...) and the command line *)

(* d.entities, d.relations: ordered unique identifiers *)
d_entities == <<"a", "b", "c">>

d_relations == <<"r">>

(* the raw triples the training split is drawn from *)
TrainTriples ==
  { <<"a", "r", "b">>, <<"a", "r", "c">>, <<"b", "r", "a">>, <<"c", "r", "c">> }

(* the raw triples the validation / test splits are drawn from *)
EvalTriples ==
  { <<"a", "r", "b">>, <<"a", "r", "c">>, <<"b", "r", "a">> }

(* --algorithm values tried: the default name and an unknown one *)
ModelNames == {"HypER", "TransE"}

(* str.lower() on the names above *)
Lower(name) ==
  CASE name = "HypER"  -> "hyper"
    [] name = "TransE" -> "transe"

(* decay_rate and label_smoothing values tried, as rationals *)
DecayRates == { <<0, 1>>, <<9, 10>> }

LabelSmoothings == { <<0, 1>>, <<1, 10>>, <<1, 2>> }

(* scores the opaque model may return for one (key, entity): 0.0, the value
   the filter also writes, and a positive score *)
Scores == {0, 1}

None == "None"

----------------------------------------------------------------------------
(* Helpers *)

Range(s) == { s[i] : i \in 1..Len(s) }

Min(a, b) == IF a < b THEN a ELSE b

SeqsUpTo(S, n) == UNION { [1..k -> S] : k \in 0..n }

Perms(s) ==
  { p \in [1..Len(s) -> Range(s)] :
      \A x \in Range(s) :
        Cardinality({ i \in 1..Len(s) : p[i] = x }) =
        Cardinality({ i \in 1..Len(s) : s[i] = x }) }

RatEq(a, b) == a[1] * b[2] = b[1] * a[2]

RatMul(a, b) == << a[1] * b[1], a[2] * b[2] >>

RatAdd(a, b) == << a[1] * b[2] + b[1] * a[2], a[2] * b[2] >>

IsZero(a) == a[1] = 0

RECURSIVE SumSeq(_)
SumSeq(s) == IF s = <<>> THEN 0 ELSE s[1] + SumSeq(Tail(s))

(* ceil(v / b) for b >= 1 *)
CeilDiv(v, b) == (v + b - 1) \div b

----------------------------------------------------------------------------
VARIABLES
  model_name, batch_size, num_iterations, decay_rate, label_smoothing,
  d_train, d_valid, d_test, d_data,
  pc, failure, entity_idxs, relation_idxs, idx_files, train_data_idxs,
  model, mode, opt, scheduler, lr, er_vocab, er_vocab_pairs,
  it, j, losses, loss, avg_loss, targets, loss_targets, data_batch,
  opt_steps, writes, epoch_log, epoch_batches,
  ev_pc, ev_data, ev_vocab, ev_i, ev_batch, ev_sort, ranks, hits, metrics,
  scoreFn, tiePos

config_vars ==
  << model_name, batch_size, num_iterations, decay_rate, label_smoothing,
     d_train, d_valid, d_test, d_data >>

train_vars ==
  << pc, failure, entity_idxs, relation_idxs, idx_files, train_data_idxs,
     model, mode, opt, scheduler, lr, er_vocab, er_vocab_pairs,
     it, j, losses, loss, avg_loss, targets, loss_targets, data_batch,
     opt_steps, writes, epoch_log, epoch_batches >>

eval_vars ==
  << ev_pc, ev_data, ev_vocab, ev_i, ev_batch, ev_sort, ranks, hits, metrics,
     scoreFn, tiePos >>

vars == << config_vars, train_vars, eval_vars >>

----------------------------------------------------------------------------
(* Experiment.get_data_idxs, get_er_vocab, get_batch *)

NumEntities == Len(d_entities)

(* {d.entities[i]: i for i in range(len(d.entities))} *)
BuildIdxs(names) ==
  [ x \in Range(names) |-> (CHOOSE i \in 1..Len(names) : names[i] = x) - 1 ]

(* the list comprehension of get_data_idxs over the two mappings *)
DataIdxs(eidx, ridx, data) ==
  [ i \in 1..Len(data) |-> << eidx[data[i][1]], ridx[data[i][2]], eidx[data[i][3]] >> ]

get_data_idxs(data) == DataIdxs(entity_idxs, relation_idxs, data)

(* a defaultdict(list): keys in insertion order, vals[key] the appended tails *)
EmptyVocab == [ keys |-> <<>>, vals |-> <<>> ]

VocabAppend(v, key, tail) ==
  IF key \in Range(v.keys)
    THEN [ v EXCEPT !.vals[key] = Append(@, tail) ]
    ELSE [ keys |-> Append(v.keys, key),
           vals |-> [ k \in Range(v.keys) \cup {key} |->
                        IF k = key THEN << tail >> ELSE v.vals[k] ] ]

RECURSIVE VocabFold(_, _)
VocabFold(v, data) ==
  IF data = <<>> THEN v
  ELSE VocabFold(VocabAppend(v, << data[1][1], data[1][2] >>, data[1][3]), Tail(data))

get_er_vocab(data) == VocabFold(EmptyVocab, data)

(* er_vocab[key] on a defaultdict: a missing key reads as [] and is inserted *)
VocabGet(v, key) == IF key \in Range(v.keys) THEN v.vals[key] ELSE <<>>

VocabTouch(v, key) ==
  IF key \in Range(v.keys) THEN v
  ELSE [ keys |-> Append(v.keys, key),
         vals |-> [ k \in Range(v.keys) \cup {key} |->
                      IF k = key THEN <<>> ELSE v.vals[k] ] ]

RECURSIVE VocabTouchAll(_, _)
VocabTouchAll(v, ks) ==
  IF ks = <<>> THEN v ELSE VocabTouchAll(VocabTouch(v, ks[1]), Tail(ks))

ZeroRow == [ e \in 0..(NumEntities - 1) |-> 0 ]

(* variant: only the first recorded tail is set *)
MultiHotFirst(row, tails) ==
  IF tails = <<>> THEN row ELSE [ row EXCEPT ![tails[1]] = 1 ]

(* targets[idx, er_vocab[pair]] = 1. : fancy-index assignment of one row *)
RECURSIVE MultiHot(_, _)
MultiHot(row, tails) ==
  IF tails = <<>> THEN row
  ELSE MultiHot([ row EXCEPT ![tails[1]] = 1 ], Tail(tails))

(* variant: a final batch shorter than batch_size is dropped *)
BatchSliceNoPartial(pairs, idx) ==
  IF idx + batch_size <= Len(pairs)
    THEN SubSeq(pairs, idx + 1, idx + batch_size)
    ELSE <<>>

(* the slice er_vocab_pairs[idx : min(idx + batch_size, len(er_vocab_pairs))] *)
BatchSlice(pairs, idx) ==
  SubSeq(pairs, idx + 1, Min(idx + batch_size, Len(pairs)))

get_batch(vocab, pairs, idx) ==
  LET batch == BatchSlice(pairs, idx)
  IN  [ batch   |-> batch,
        targets |-> [ i \in 1..Len(batch) |-> MultiHot(ZeroRow, VocabGet(vocab, batch[i])) ],
        vocab   |-> VocabTouchAll(vocab, batch) ]

----------------------------------------------------------------------------
(* Initial state: the Experiment built by __main__, before train_and_eval *)

TrainIdle ==
  /\ pc = "idle"
  /\ failure = None
  /\ entity_idxs = <<>>
  /\ relation_idxs = <<>>
  /\ idx_files = {}
  /\ train_data_idxs = <<>>
  /\ model = None
  /\ mode = None
  /\ opt = None
  /\ scheduler = None
  /\ lr = None
  /\ er_vocab = EmptyVocab
  /\ er_vocab_pairs = <<>>
  /\ it = 0
  /\ j = 0
  /\ losses = <<>>
  /\ loss = None
  /\ avg_loss = None
  /\ targets = <<>>
  /\ loss_targets = <<>>
  /\ data_batch = <<>>
  /\ opt_steps = 0
  /\ writes = [ model |-> 0, entity |-> 0, relation |-> 0 ]
  /\ epoch_log = <<>>
  /\ epoch_batches = <<>>

EvalIdle ==
  /\ ev_pc = "idle"
  /\ ev_data = <<>>
  /\ ev_vocab = EmptyVocab
  /\ ev_i = 0
  /\ ev_batch = <<>>
  /\ ev_sort = <<>>
  /\ ranks = <<>>
  /\ hits = [ l \in 0..(HitsLevels - 1) |-> <<>> ]
  /\ metrics = None

(* label_smoothing is the 0.1 that __main__ passes; the other inputs are
   drawn from their sets *)
Init ==
  /\ model_name \in ModelNames
  /\ batch_size \in 1..MaxBatch
  /\ num_iterations = MaxIter
  /\ decay_rate \in DecayRates
  /\ label_smoothing = << 1, 10 >>
  /\ d_train \in SeqsUpTo(TrainTriples, MaxTrain)
  /\ d_valid \in SeqsUpTo({ <<"a", "r", "b">> }, 1)
  /\ d_test \in SeqsUpTo({ <<"b", "r", "a">> }, 1)
  /\ d_data = d_train \o d_valid \o d_test
  /\ TrainIdle
  /\ EvalIdle
  /\ scoreFn = <<>>
  /\ tiePos = <<>>

(* The same run with the splits and the decay rate of __main__ held fixed and
   the label-smoothing factor drawn from LabelSmoothings *)
InitSmooth ==
  /\ model_name \in ModelNames
  /\ batch_size \in 1..MaxBatch
  /\ num_iterations = MaxIter
  /\ decay_rate = << 9, 10 >>
  /\ label_smoothing \in LabelSmoothings
  /\ d_train \in SeqsUpTo(TrainTriples, MaxTrain)
  /\ d_valid = << <<"a", "r", "b">> >>
  /\ d_test = << <<"b", "r", "a">> >>
  /\ d_data = d_train \o d_valid \o d_test
  /\ TrainIdle
  /\ EvalIdle
  /\ scoreFn = <<>>
  /\ tiePos = <<>>

----------------------------------------------------------------------------
(* train_and_eval, lines 113-145: set-up *)

(* save_as_numpy(dictionary, file): the dictionary's keys, in order, to file *)
save_as_numpy(files, file) == files \cup { file }

(* lines 115-122: build both index mappings, index the training split,
   persist the mappings *)
BuildIndex ==
  /\ pc = "idle"
  /\ entity_idxs' = BuildIdxs(d_entities)
  /\ relation_idxs' = BuildIdxs(d_relations)
  /\ train_data_idxs' = DataIdxs(entity_idxs', relation_idxs', d_train)
  /\ idx_files' = save_as_numpy(save_as_numpy(idx_files, "entities.npy"), "relations.npy")
  /\ pc' = "select"
  /\ UNCHANGED << epoch_batches, config_vars, eval_vars, failure, model, mode, opt, scheduler, lr,
                  er_vocab, er_vocab_pairs, it, j, losses, loss, avg_loss, targets,
                  loss_targets, data_batch, opt_steps, writes, epoch_log >>

(* lines 124-133: the if / elif chain over model_name.lower(); no else branch,
   so an unknown name leaves the local `model` unbound *)
SelectModel(name) ==
  CASE Lower(name) = "hype"     -> "HypE"
    [] Lower(name) = "hyper"    -> "HypER"
    [] Lower(name) = "distmult" -> "DistMult"
    [] Lower(name) = "conve"    -> "ConvE"
    [] Lower(name) = "complex"  -> "ComplEx"
    [] OTHER                    -> None

(* lines 124-145: select and initialise the model, create the optimizer and
   the scheduler, build the training ER-vocabulary.  With `model` unbound,
   line 134 raises UnboundLocalError and the run ends. *)
CreateModel ==
  /\ pc = "select"
  /\ IF SelectModel(model_name) = None
       THEN /\ pc' = "failed"
            /\ failure' = "UnboundLocalError"
            /\ UNCHANGED << model, opt, scheduler, lr, er_vocab, er_vocab_pairs >>
       ELSE /\ model' = SelectModel(model_name)
            /\ opt' = "Adam"
            /\ lr' = << 1, 1000 >>
            /\ scheduler' = IF ~IsZero(decay_rate) THEN "ExponentialLR" ELSE None
            /\ er_vocab' = get_er_vocab(train_data_idxs)
            /\ er_vocab_pairs' = get_er_vocab(train_data_idxs).keys
            /\ pc' = "epoch"
            /\ UNCHANGED failure
  /\ UNCHANGED << epoch_batches, config_vars, eval_vars, entity_idxs, relation_idxs, idx_files,
                  train_data_idxs, mode, it, j, losses, loss, avg_loss, targets,
                  loss_targets, data_batch, opt_steps, writes, epoch_log >>

----------------------------------------------------------------------------
(* train_and_eval, lines 149-200: the epoch loop *)

(* lines 150-155: next epoch; model.train(), losses = [], shuffle the keys *)
EpochStart ==
  /\ pc = "epoch"
  /\ it < num_iterations
  /\ it' = it + 1
  /\ mode' = "train"
  /\ losses' = <<>>
  /\ er_vocab_pairs' \in Perms(er_vocab_pairs)
  /\ j' = 0
  /\ epoch_log' = <<>>
  /\ epoch_batches' = <<>>
  /\ pc' = IF Len(er_vocab_pairs) > 0 THEN "batch" ELSE "decay"
  /\ UNCHANGED << config_vars, eval_vars, failure, entity_idxs, relation_idxs,
                  idx_files, train_data_idxs, model, opt, scheduler, lr, er_vocab,
                  loss, avg_loss, targets, loss_targets, data_batch, opt_steps,
                  writes >>

(* line 167: ((1.0 - label_smoothing) * targets) + (1.0 / targets.size(1)) *)
Smooth(t, s, n) == RatAdd(RatMul(<< s[2] - s[1], s[2] >>, << t, 1 >>), << 1, n >>)

(* lines 166-167: smoothing applied to the whole target matrix when nonzero *)
SmoothTargets(tg) ==
  IF ~IsZero(label_smoothing)
    THEN [ i \in 1..Len(tg) |->
             [ e \in 0..(NumEntities - 1) |-> Smooth(tg[i][e], label_smoothing, NumEntities) ] ]
    ELSE [ i \in 1..Len(tg) |-> [ e \in 0..(NumEntities - 1) |-> << tg[i][e], 1 >> ] ]

(* lines 156-171: one training batch at offset j *)
TrainBatch ==
  /\ pc = "batch"
  /\ LET b == get_batch(er_vocab, er_vocab_pairs, j)
     IN  /\ data_batch' = b.batch
         /\ targets' = b.targets
         /\ er_vocab' = b.vocab
         /\ loss_targets' = SmoothTargets(b.targets)
  /\ loss' = << it, j >>
  /\ opt_steps' = opt_steps + 1
  /\ epoch_log' = epoch_log \o << "forward", "loss", "step" >>
  /\ epoch_batches' = Append(epoch_batches, data_batch')
  /\ j' = j + batch_size
  /\ pc' = IF j + batch_size < Len(er_vocab_pairs) THEN "batch" ELSE "decay"
  /\ UNCHANGED << config_vars, eval_vars, failure, entity_idxs, relation_idxs,
                  idx_files, train_data_idxs, model, mode, opt, scheduler, lr,
                  er_vocab_pairs, it, losses, avg_loss, writes >>

(* variant: the scheduler steps whatever decay_rate is *)
LRDecayAlways ==
  /\ pc = "decay"
  /\ lr' = RatMul(lr, decay_rate)
  /\ epoch_log' = Append(epoch_log, "decay")
  /\ pc' = "record"
  /\ UNCHANGED << epoch_batches, config_vars, eval_vars, failure, entity_idxs, relation_idxs,
                  idx_files, train_data_idxs, model, mode, opt, scheduler, er_vocab,
                  er_vocab_pairs, it, j, losses, loss, avg_loss, targets,
                  loss_targets, data_batch, opt_steps, writes >>

(* lines 172-173: one ExponentialLR step per epoch when decay_rate is nonzero *)
LRDecay ==
  /\ pc = "decay"
  /\ IF ~IsZero(decay_rate)
       THEN /\ lr' = RatMul(lr, decay_rate)
            /\ epoch_log' = Append(epoch_log, "decay")
       ELSE UNCHANGED << lr, epoch_log >>
  /\ pc' = "record"
  /\ UNCHANGED << epoch_batches, config_vars, eval_vars, failure, entity_idxs, relation_idxs,
                  idx_files, train_data_idxs, model, mode, opt, scheduler, er_vocab,
                  er_vocab_pairs, it, j, losses, loss, avg_loss, targets,
                  loss_targets, data_batch, opt_steps, writes >>

(* lines 174-175, after the batch loop: losses.append(loss.item()),
   avg_loss = np.mean(losses).  With no batch ever run, `loss` is unbound and
   line 174 raises NameError. *)
RecordLoss ==
  /\ pc = "record"
  /\ IF loss = None
       THEN /\ pc' = "failed"
            /\ failure' = "NameError"
            /\ UNCHANGED << losses, avg_loss, epoch_log >>
       ELSE /\ losses' = Append(losses, loss)
            /\ avg_loss' = [ mean_of |-> Append(losses, loss), count |-> Len(losses) + 1 ]
            /\ epoch_log' = Append(epoch_log, "record")
            /\ pc' = "validate"
            /\ UNCHANGED failure
  /\ UNCHANGED << epoch_batches, config_vars, eval_vars, entity_idxs, relation_idxs, idx_files,
                  train_data_idxs, model, mode, opt, scheduler, lr, er_vocab,
                  er_vocab_pairs, it, j, loss, targets, loss_targets, data_batch,
                  opt_steps, writes >>

(* line 177: if d.valid_data and d.test_data *)
EvalEnabled == d_valid # <<>> /\ d_test # <<>>

(* lines 177-181: model.eval(); evaluate(model, d.valid_data) under no_grad.
   evaluate keeps its results in locals and prints them: it changes nothing
   of train_and_eval; its own steps are EvalStart, EvalBatch, EvalReport. *)
Validation ==
  /\ pc = "validate"
  /\ IF EvalEnabled
       THEN /\ mode' = "eval"
            /\ epoch_log' = Append(epoch_log, "valid")
       ELSE UNCHANGED << mode, epoch_log >>
  /\ pc' = "test"
  /\ UNCHANGED << epoch_batches, config_vars, eval_vars, failure, entity_idxs, relation_idxs,
                  idx_files, train_data_idxs, model, opt, scheduler, lr, er_vocab,
                  er_vocab_pairs, it, j, losses, loss, avg_loss, targets,
                  loss_targets, data_batch, opt_steps, writes >>

(* variant: the test split is evaluated in odd epochs *)
TestDueOdd == EvalEnabled /\ it % 2 # 0

(* lines 182-184, inside the if of line 177: evaluate(model, d.test_data)
   when not it % 2 *)
TestDue == EvalEnabled /\ it % 2 = 0

Test ==
  /\ pc = "test"
  /\ IF TestDue
       THEN epoch_log' = Append(epoch_log, "test")
       ELSE UNCHANGED epoch_log
  /\ pc' = "ckpt"
  /\ UNCHANGED << epoch_batches, config_vars, eval_vars, failure, entity_idxs, relation_idxs,
                  idx_files, train_data_idxs, model, mode, opt, scheduler, lr,
                  er_vocab, er_vocab_pairs, it, j, losses, loss, avg_loss, targets,
                  loss_targets, data_batch, opt_steps, writes >>

(* variant: the three saves sit inside the if of line 177 *)
SaveAllIfEvaluated(w) ==
  IF EvalEnabled
    THEN [ model |-> w.model + 1, entity |-> w.entity + 1, relation |-> w.relation + 1 ]
    ELSE w

(* lines 186-200: torch.save of the state dict, E.weight and R.weight *)
SaveAll(w) ==
  [ model |-> w.model + 1, entity |-> w.entity + 1, relation |-> w.relation + 1 ]

Checkpoint ==
  /\ pc = "ckpt"
  /\ writes' = SaveAll(writes)
  /\ epoch_log' = Append(epoch_log, "ckpt")
  /\ pc' = IF it < num_iterations THEN "epoch" ELSE "done"
  /\ UNCHANGED << epoch_batches, config_vars, eval_vars, failure, entity_idxs, relation_idxs,
                  idx_files, train_data_idxs, model, mode, opt, scheduler, lr,
                  er_vocab, er_vocab_pairs, it, j, losses, loss, avg_loss, targets,
                  loss_targets, data_batch, opt_steps >>

Next ==
  \/ BuildIndex
  \/ CreateModel
  \/ EpochStart
  \/ TrainBatch
  \/ LRDecay
  \/ RecordLoss
  \/ Validation
  \/ Test
  \/ Checkpoint

Spec == Init /\ [][Next]_vars

SpecSmooth == InitSmooth /\ [][Next]_vars

----------------------------------------------------------------------------
(* evaluate(model, data), lines 59-104 *)

(* lines 60-68: empty hits and ranks, index the split, build the filter
   vocabulary from d.data *)
EvalStart ==
  /\ ev_pc = "idle"
  /\ hits' = [ l \in 0..(HitsLevels - 1) |-> <<>> ]
  /\ ranks' = <<>>
  /\ ev_data' = get_data_idxs(d_valid)
  /\ ev_vocab' = get_er_vocab(get_data_idxs(d_data))
  /\ ev_i' = 0
  /\ ev_pc' = IF Len(d_valid) > 0 THEN "loop" ELSE "report"
  /\ UNCHANGED << config_vars, train_vars, ev_batch, ev_sort, metrics, scoreFn, tiePos >>

(* line 79: model.forward(e1_idx, r_idx), one score row per row of the batch *)
Forward(batch) == [ k \in 1..Len(batch) |-> scoreFn[<< batch[k][1], batch[k][2] >>] ]

(* variant: every row of a batch is filtered with the key of its first row *)
FilterKeyFirst(batch, k) == << batch[1][1], batch[1][2] >>

(* line 82: the key whose filter list is applied to row k *)
FilterKey(batch, k) == << batch[k][1], batch[k][2] >>

(* line 84: predictions[j, filt] = 0.0 *)
RECURSIVE ZeroAt(_, _)
ZeroAt(row, filt) ==
  IF filt = <<>> THEN row ELSE ZeroAt([ row EXCEPT ![filt[1]] = 0 ], Tail(filt))

(* lines 82-85: save the target's score, zero the filter list, restore it *)
FilterRow(row, filt, e2) ==
  LET target_value == row[e2]
  IN  [ ZeroAt(row, filt) EXCEPT ![e2] = target_value ]

(* the total order torch.sort(descending=True) puts a row in: higher score
   first, equal scores in the order tiePos gives the sort *)
Before(row, a, b) ==
  \/ row[a] > row[b]
  \/ row[a] = row[b] /\ tiePos[a] < tiePos[b]

(* line 87: sort_idxs of one row *)
RECURSIVE SortRest(_, _)
SortRest(row, left) ==
  IF left = {} THEN <<>>
  ELSE LET first == CHOOSE a \in left : \A b \in left \ {a} : Before(row, a, b)
       IN  << first >> \o SortRest(row, left \ {first})

SortIdxs(row) == SortRest(row, DOMAIN row)

(* line 91: np.where(sort_idxs[j] == e2_idx[j])[0][0], zero-based *)
RankOf(sorted, e2) == (CHOOSE p \in 1..Len(sorted) : sorted[p] = e2) - 1

(* lines 94-98: the 0/1 indicator of one hits level *)
HitAt(rank, hits_level) == IF rank <= hits_level THEN 1 ELSE 0

(* lines 81-87 for row k of the batch: the filtered row, sorted *)
SortedRow(vocab, batch, k) ==
  SortIdxs(FilterRow(Forward(batch)[k], VocabGet(vocab, FilterKey(batch, k)), batch[k][3]))

(* lines 70-98: one batch at offset ev_i: forward, filter every row, sort,
   record rank and hits of every row *)
EvalBatch ==
  /\ ev_pc = "loop"
  /\ LET b == get_batch(ev_vocab, ev_data, ev_i)
     IN  /\ ev_batch' = b.batch
         /\ ev_vocab' = b.vocab
  /\ ev_sort' = [ k \in 1..Len(ev_batch') |-> SortedRow(ev_vocab', ev_batch', k) ]
  /\ ranks' = ranks \o [ k \in 1..Len(ev_batch') |-> RankOf(ev_sort'[k], ev_batch'[k][3]) + 1 ]
  /\ hits' = [ l \in 0..(HitsLevels - 1) |->
                 hits[l] \o [ k \in 1..Len(ev_batch') |->
                                HitAt(ranks'[Len(ranks) + k] - 1, l) ] ]
  /\ ev_i' = ev_i + batch_size
  /\ ev_pc' = IF ev_i + batch_size < Len(ev_data) THEN "loop" ELSE "report"
  /\ UNCHANGED << config_vars, train_vars, ev_data, metrics, scoreFn, tiePos >>

(* np.mean over a list of integers, as a rational *)
Mean(xs) == << SumSeq(xs), Len(xs) >>

(* np.mean(1. / np.array(ranks)) *)
RECURSIVE SumRecip(_)
SumRecip(xs) ==
  IF xs = <<>> THEN << 0, 1 >> ELSE RatAdd(<< 1, xs[1] >>, SumRecip(Tail(xs)))

MeanRecip(xs) == RatMul(SumRecip(xs), << 1, Len(xs) >>)

(* lines 100-104: the printed metrics *)
EvalReport ==
  /\ ev_pc = "report"
  /\ metrics' = [ hits10 |-> Mean(hits[9]), hits3 |-> Mean(hits[2]), hits1 |-> Mean(hits[0]),
                  mean_rank |-> Mean(ranks), mrr |-> MeanRecip(ranks) ]
  /\ ev_pc' = "done"
  /\ UNCHANGED << config_vars, train_vars, ev_data, ev_vocab, ev_i, ev_batch, ev_sort,
                  ranks, hits, scoreFn, tiePos >>

(* The state in which train_and_eval calls evaluate(model, d.valid_data) at
   line 181: both splits non-empty, the index mappings built and persisted,
   the model in eval mode.  evaluate reads batch_size, d, the index mappings
   and the model's scores; the epoch loop's other locals are not read by it
   and are kept at their initial values. *)
InitEval ==
  /\ model_name = "HypER"
  /\ batch_size \in 1..MaxBatch
  /\ num_iterations = MaxIter
  /\ decay_rate = << 0, 1 >>
  /\ label_smoothing = << 0, 1 >>
  /\ d_train \in SeqsUpTo({ <<"a", "r", "c">> }, MaxRest)
  /\ d_valid \in SeqsUpTo(EvalTriples, MaxEval) \ { <<>> }
  /\ d_test = << <<"b", "r", "a">> >>
  /\ d_data = d_train \o d_valid \o d_test
  /\ pc = "validate"
  /\ failure = None
  /\ entity_idxs = BuildIdxs(d_entities)
  /\ relation_idxs = BuildIdxs(d_relations)
  /\ idx_files = { "entities.npy", "relations.npy" }
  /\ train_data_idxs = get_data_idxs(d_train)
  /\ model = "HypER"
  /\ mode = "eval"
  /\ opt = "Adam"
  /\ scheduler = None
  /\ lr = << 1, 1000 >>
  /\ er_vocab = get_er_vocab(train_data_idxs)
  /\ er_vocab_pairs = er_vocab.keys
  /\ it = 1
  /\ j = 0
  /\ losses = <<>>
  /\ loss = None
  /\ avg_loss = None
  /\ targets = <<>>
  /\ loss_targets = <<>>
  /\ data_batch = <<>>
  /\ opt_steps = 0
  /\ writes = [ model |-> 0, entity |-> 0, relation |-> 0 ]
  /\ epoch_log = <<>>
  /\ epoch_batches = <<>>
  /\ EvalIdle
  /\ scoreFn \in [ { << t[1], t[2] >> : t \in Range(get_data_idxs(d_valid)) } ->
                     [ 0..(NumEntities - 1) -> Scores ] ]
  /\ tiePos \in { p \in [ 0..(NumEntities - 1) -> 1..NumEntities ] :
                    \A a, b \in 0..(NumEntities - 1) : a # b => p[a] # p[b] }

NextEval ==
  \/ EvalStart
  \/ EvalBatch
  \/ EvalReport

SpecEval == InitEval /\ [][NextEval]_vars

----------------------------------------------------------------------------
(* Properties of train_and_eval *)

Count(log, ev) == Cardinality({ i \in 1..Len(log) : log[i] = ev })

(* the epoch whose body is running, or 0 between epochs *)
InEpoch == pc \in { "batch", "decay", "record", "validate", "test", "ckpt" }

(* the epoch loop has just finished the body of epoch `it` *)
EpochEnded == pc \in { "epoch", "done" } /\ it >= 1

(* epochs whose body ran to its last statement *)
CompletedEpochs ==
  IF InEpoch \/ (pc = "failed" /\ failure = "NameError") THEN it - 1 ELSE it

(* the keys (h, r) of the indexed training triples *)
TrainKeys == { << t[1], t[2] >> : t \in Range(train_data_idxs) }

(* the tails the training split records for key *)
TailsOf(key) ==
  { t[3] : t \in { x \in Range(train_data_idxs) : << x[1], x[2] >> = key } }

RECURSIVE Concat(_)
Concat(ss) == IF ss = <<>> THEN <<>> ELSE ss[1] \o Concat(Tail(ss))

RECURSIVE Pow(_, _)
Pow(b, n) == IF n = 0 THEN 1 ELSE b * Pow(b, n - 1)

(* C1: after k completed epochs each of the three checkpoint artifacts (model
   state, entity embeddings, relation embeddings) has been written exactly k
   times, and the epoch just ended wrote them exactly once, with or without
   evaluation. *)
C1_CheckpointPerEpoch ==
  /\ writes.model = CompletedEpochs
  /\ writes.entity = CompletedEpochs
  /\ writes.relation = CompletedEpochs
  /\ EpochEnded => Count(epoch_log, "ckpt") = 1
  /\ InEpoch => Count(epoch_log, "ckpt") = 0

C1_Witness ==
  /\ pc = "done"
  /\ it = num_iterations
  /\ d_valid = <<>>
  /\ writes = [ model |-> it, entity |-> it, relation |-> it ]

(* (1 - s) * t + s / N *)
C2_SmoothScaled(t, s, n) ==
  RatAdd(RatMul(<< s[2] - s[1], s[2] >>, << t, 1 >>), << s[1], s[2] * n >>)

(* C2: with smoothing factor s # 0 and N entities every target t reaches the
   loss as (1 - s) * t + s / N; with s = 0 the targets reach it unchanged. *)
C2_LabelSmoothing ==
  \A i \in 1..Len(loss_targets) :
    \A e \in 0..(NumEntities - 1) :
      RatEq(loss_targets[i][e],
            IF IsZero(label_smoothing)
              THEN << targets[i][e], 1 >>
              ELSE C2_SmoothScaled(targets[i][e], label_smoothing, NumEntities))

(* C4: when the batch loop of an epoch ends it has produced ceil(V/B)
   batches, all of size B except the last of size V mod B (B when that is 0),
   and their concatenation holds every training key exactly once. *)
C4_BatchPartition ==
  pc = "decay" =>
    LET V == Cardinality(TrainKeys)
        B == batch_size
        n == Len(epoch_batches)
        all == Concat(epoch_batches)
    IN  /\ n = CeilDiv(V, B)
        /\ \A k \in 1..n :
             Len(epoch_batches[k]) =
               IF k < n THEN B ELSE IF V % B = 0 THEN B ELSE V % B
        /\ Len(all) = V
        /\ \A key \in TrainKeys :
             Cardinality({ i \in 1..Len(all) : all[i] = key }) = 1

C4_Witness ==
  /\ pc = "decay"
  /\ Cardinality(TrainKeys) = 3
  /\ batch_size = 2
  /\ Len(epoch_batches) = 2
  /\ Len(epoch_batches[2]) = 1

(* C5: the target matrix of a training batch has one row per key and
   num_entities columns; row i holds 1 at column e exactly when e is a tail
   the training split records for key i, and 0 elsewhere, also when a tail
   is recorded more than once. *)
C5_TargetMatrix ==
  InEpoch /\ pc # "batch" =>
    /\ Len(targets) = Len(data_batch)
    /\ \A i \in 1..Len(targets) :
         /\ DOMAIN targets[i] = 0..(NumEntities - 1)
         /\ \A e \in 0..(NumEntities - 1) :
              targets[i][e] = IF e \in TailsOf(data_batch[i]) THEN 1 ELSE 0

C5_Witness ==
  /\ pc = "decay"
  /\ d_train = << <<"a", "r", "b">>, <<"a", "r", "c">>, <<"a", "r", "b">> >>
  /\ data_batch = << <<0, 0>> >>
  /\ targets = << [ e \in 0..2 |-> IF e = 0 THEN 0 ELSE 1 ] >>

(* C6: with both splits non-empty every epoch evaluates the validation split
   exactly once and the test split exactly once when the epoch number is
   even, never when it is odd; with either split empty nothing is
   evaluated. *)
C6_EvalSchedule ==
  LET both == d_valid # <<>> /\ d_test # <<>>
  IN  /\ EpochEnded \/ pc = "ckpt" =>
          /\ Count(epoch_log, "valid") = IF both THEN 1 ELSE 0
          /\ Count(epoch_log, "test") = IF both /\ it % 2 = 0 THEN 1 ELSE 0
      /\ ~both => Count(epoch_log, "valid") + Count(epoch_log, "test") = 0
      /\ it % 2 = 1 => Count(epoch_log, "test") = 0

C6_Witness ==
  /\ pc = "done"
  /\ it = 2
  /\ d_valid # <<>>
  /\ d_test # <<>>
  /\ Count(epoch_log, "valid") = 1
  /\ Count(epoch_log, "test") = 1

(* C7: when the algorithm name is unknown the run fails before any training
   state exists: no index mapping built or persisted, no model, no
   optimizer, no optimizer step, no checkpoint. *)
C7_FailFast ==
  (pc = "failed" /\ failure = "UnboundLocalError") =>
    /\ DOMAIN entity_idxs = {}
    /\ DOMAIN relation_idxs = {}
    /\ idx_files = {}
    /\ model = None
    /\ opt = None
    /\ opt_steps = 0
    /\ writes = [ model |-> 0, entity |-> 0, relation |-> 0 ]

(* the phase an event of the epoch log belongs to *)
PhaseOf(ev) ==
  CASE ev \in { "forward", "loss", "step" } -> 1
    [] ev = "decay"  -> 2
    [] ev = "record" -> 3
    [] ev = "valid"  -> 4
    [] ev = "test"   -> 5
    [] ev = "ckpt"   -> 6

(* C9: within an epoch the events occur in the order training batches,
   learning-rate decay, validation, test, checkpoint; epochs run 1..N and
   the run is done only after epoch N; with a nonzero decay rate exactly one
   decay step is applied per epoch, after the epoch's last optimizer step
   and before its evaluation and checkpoint, and with a zero rate the
   learning rate never changes. *)
C9_PhaseOrder ==
  LET decays == Count(epoch_log, "decay")
      past == pc \in { "record", "validate", "test", "ckpt", "epoch", "done" } /\ it >= 1
      steps == IF it = 0 THEN 0 ELSE (it - 1) + decays
  IN  /\ \A a \in 1..(Len(epoch_log) - 1) :
           PhaseOf(epoch_log[a]) <= PhaseOf(epoch_log[a + 1])
      /\ it \in 0..num_iterations
      /\ pc = "done" => it = num_iterations
      /\ past => decays = IF IsZero(decay_rate) THEN 0 ELSE 1
      /\ decays <= 1
      /\ lr # None =>
           IF IsZero(decay_rate)
             THEN lr = << 1, 1000 >>
             ELSE RatEq(lr, << Pow(decay_rate[1], steps), 1000 * Pow(decay_rate[2], steps) >>)

C9_Witness ==
  /\ pc = "done"
  /\ ~IsZero(decay_rate)
  /\ Len(epoch_batches) = 2
  /\ epoch_log = << "forward", "loss", "step", "forward", "loss", "step",
                    "decay", "record", "valid", "test", "ckpt" >>

(* C10: each batch does one forward pass, one loss computation and one
   optimizer step and records its loss: after an epoch of ceil(V/B) batches
   the epoch's loss list holds ceil(V/B) values, one per batch in batch
   order, and the average is taken over all of them. *)
C10_LossPerBatch ==
  (pc \in { "validate", "test", "ckpt" }) =>
    LET n == CeilDiv(Cardinality(TrainKeys), batch_size)
    IN  /\ Count(epoch_log, "forward") = n
        /\ Count(epoch_log, "loss") = n
        /\ Count(epoch_log, "step") = n
        /\ losses = [ k \in 1..n |-> << it, (k - 1) * batch_size >> ]
        /\ avg_loss = [ mean_of |-> losses, count |-> n ]

----------------------------------------------------------------------------
(* Properties of evaluate *)

(* the known-true tails of key in the full dataset d.data *)
FilterSet(key) ==
  { entity_idxs[t[3]] :
      t \in { x \in Range(d_data) :
                << entity_idxs[x[1]], relation_idxs[x[2]] >> = key } }

Pos(sorted, e) == CHOOSE p \in 1..Len(sorted) : sorted[p] = e

(* C3: for every evaluated triple (h, r, t) no entity of the filter set of
   (h, r) other than t is sorted ahead of t, and the rank of t is 1 plus the
   number of entities outside the filter set sorted ahead of t. *)
C3_FilteredOut ==
  (ev_pc \in { "loop", "report", "done" } /\ ev_batch # <<>>) =>
    \A k \in 1..Len(ev_batch) :
      LET key == << ev_batch[k][1], ev_batch[k][2] >>
          t == ev_batch[k][3]
          ahead == { e \in 0..(NumEntities - 1) : Pos(ev_sort[k], e) < Pos(ev_sort[k], t) }
          n == Len(ranks) - Len(ev_batch) + k
      IN  /\ \A f \in FilterSet(key) \ { t } : f \notin ahead
          /\ ranks[n] = 1 + Cardinality(ahead \ FilterSet(key))

(* one triple scored, filtered and ranked on its own: the score row of its
   key with every other known-true tail set to 0, and the number of entities
   the sort order puts before t *)
PerTripleRank(tr) ==
  LET key == << tr[1], tr[2] >>
      t == tr[3]
      row == [ e \in 0..(NumEntities - 1) |->
                 IF e \in FilterSet(key) /\ e # t THEN 0 ELSE scoreFn[key][e] ]
      ahead == { e \in 0..(NumEntities - 1) \ { t } :
                   \/ row[e] > row[t]
                   \/ row[e] = row[t] /\ tiePos[e] < tiePos[t] }
  IN  1 + Cardinality(ahead)

(* the split as train_and_eval passes it, indexed triple by triple *)
SplitIdx(i) ==
  << entity_idxs[d_valid[i][1]], relation_idxs[d_valid[i][2]], entity_idxs[d_valid[i][3]] >>

(* C8: whatever the batch size, evaluate records one rank per triple of the
   split, in the split's order, repeated keys and triples counted separately;
   ranks, Hits@k indicators (1 iff rank <= k, k in 1..10), mean rank and mean
   reciprocal rank equal those of per-triple evaluation. *)
C8_BatchedEqualsPerTriple ==
  LET n == Len(ranks)
  IN  /\ ev_pc \in { "loop", "report", "done" } =>
           /\ n = Min(ev_i, Len(d_valid))
           /\ \A i \in 1..n : ranks[i] = PerTripleRank(SplitIdx(i))
           /\ \A l \in 0..(HitsLevels - 1) :
                /\ Len(hits[l]) = n
                /\ \A i \in 1..n : hits[l][i] = IF ranks[i] <= l + 1 THEN 1 ELSE 0
      /\ ev_pc \in { "report", "done" } => n = Len(d_valid)
      /\ ev_pc = "done" =>
           /\ RatEq(metrics.mean_rank, << SumSeq(ranks), n >>)
           /\ RatEq(metrics.mrr, RatMul(SumRecip(ranks), << 1, n >>))
           /\ RatEq(metrics.hits1, << Cardinality({ i \in 1..n : ranks[i] <= 1 }), n >>)
           /\ RatEq(metrics.hits3, << Cardinality({ i \in 1..n : ranks[i] <= 3 }), n >>)
           /\ RatEq(metrics.hits10, << Cardinality({ i \in 1..n : ranks[i] <= 10 }), n >>)

C8_Witness ==
  /\ ev_pc = "done"
  /\ batch_size = 2
  /\ d_valid = << <<"a", "r", "b">>, <<"b", "r", "a">> >>
  /\ d_train = << <<"a", "r", "c">> >>
  /\ ranks = << 2, 3 >>
  /\ RatEq(metrics.mrr, << 5, 12 >>)

====
